---- MODULE Spec2Model ----
(***************************************************************************)
(* SingleLinkedList<Type> of single-linked-list.h as a state machine.      *)
(*                                                                         *)
(* The heap is a set of node addresses 1..MaxNodes; address 0 is nullptr   *)
(* and the sentinel head_ embedded in list object l has address -l.  The   *)
(* program holds the list objects 1 and 2; object Tmp is the local `tmp`   *)
(* of operator=.  Every constructor and public member function is one      *)
(* action.  Spec is a program that uses one list object, SpecPair one that *)
(* uses two.                                                               *)
(***************************************************************************)
EXTENDS Integers, Sequences, FiniteSets, TLC

\* ---- bounds of the model ------------------------------------------------
MaxNodes == 3      \* heap addresses available to `new Node`
MaxVal   == 2      \* element values are 1..MaxVal
MaxSize  == MaxNodes   \* insertions are explored while size_ < MaxSize
MaxInit  == MaxNodes   \* longest initializer_list explored

\* ---- addresses ------------------------------------------------------------
Null == 0
Lists == {1, 2}
Tmp == 3
AllLists == Lists \cup {Tmp}
Nodes == 1..MaxNodes
Values == 1..MaxVal
Sentinel(l) == 0 - l
Sentinels == {Sentinel(l) : l \in AllLists}
Cells == Sentinels \cup Nodes

VARIABLES
    next,       \* next_node of every cell (sentinels and heap nodes)
    value,      \* value of every heap node (0 in a free cell and in garbage)
    alloc,      \* heap nodes allocated by `new` and not yet deleted
    size,       \* size_ of every list object
    last,       \* the pointer `last` of every list object
    lstate,     \* what `last` holds: "uninit" (never written), "valid", "dangling"
    live,       \* which list objects are constructed and not yet destroyed
    dfreed,     \* nodes passed to `delete` while not allocated (double free)
    crashed,    \* the process was killed by an invalid memory access
    call        \* the call that produced this state, with its result

vars == <<next, value, alloc, size, last, lstate, live, dfreed, crashed, call>>

\* ---- the heap as a value, so that member functions compose ----------------
Heap == [next |-> next, value |-> value, alloc |-> alloc, size |-> size,
         last |-> last, lstate |-> lstate, dfree |-> dfreed]

Free(h) == Nodes \ h.alloc

Min(S) == CHOOSE x \in S : \A y \in S : x <= y

\* The free cells a dangling `last` still points to
Held(h) == {n \in Free(h) : \E l \in AllLists : h.lstate[l] = "dangling" /\ h.last[l] = n}

\* The addresses `new` can return among the free cells `free`: any cell a
\* dangling pointer of the program refers to and, the cells no pointer refers
\* to being indistinguishable, the lowest of those
NewChoices(held, free) ==
    (held \cap free) \cup (IF free \ held = {} THEN {} ELSE {Min(free \ held)})

New(h) == NewChoices(Held(h), Free(h))

\* Node(const Type& val, Node* next) placed by `new` at the free address a
NewNode(h, a, v, nx) ==
    [h EXCEPT !.alloc = @ \cup {a}, !.value[a] = v, !.next[a] = nx]

\* `delete n`: the cell is returned to the allocator; every `last` that
\* pointed at it is dangling from now on
Delete(h, n) ==
    [h EXCEPT !.alloc = @ \ {n},
              !.value = [@ EXCEPT ![n] = 0],
              !.next = [@ EXCEPT ![n] = Null],
              !.dfree = IF n \in h.alloc THEN @ ELSE @ \cup {n},
              !.lstate = [l \in AllLists |->
                            IF h.lstate[l] = "valid" /\ h.last[l] = n
                            THEN "dangling" ELSE h.lstate[l]]]

\* ---- iteration: begin() .. end() over next_node ---------------------------
RECURSIVE Walk(_, _, _)
Walk(nx, p, fuel) ==
    IF p = Null \/ fuel = 0 THEN <<>>
    ELSE <<p>> \o Walk(nx, nx[p], fuel - 1)

ChainOf(h, l) == Walk(h.next, h.next[Sentinel(l)], MaxNodes + 1)
ContentsOf(h, l) == [i \in 1..Len(ChainOf(h, l)) |-> h.value[ChainOf(h, l)[i]]]

Chain(l) == ChainOf(Heap, l)
Contents(l) == ContentsOf(Heap, l)
Range(s) == {s[i] : i \in 1..Len(s)}

GetSize(l) == size[l]
IsEmptyOf(h, l) == h.size[l] = 0
IsEmpty(l) == IsEmptyOf(Heap, l)

\* ---- states up to what the program can observe ----------------------------
\* A state is stored in a normal form that no call can tell from the state
\* itself: (1) a node that neither an iteration nor a `last` pointer leads to
\* is garbage, and its fields are forgotten (it stays allocated: it is a
\* leak); (2) heap addresses are renamed so that the nodes of list 1 come
\* first, in iteration order, then those of list 2, then the other cells.

RECURSIVE ReachFrom(_, _, _)
ReachFrom(h, frontier, seen) ==
    LET new == (frontier \cap h.alloc) \ seen
    IN  IF new = {} THEN seen
        ELSE ReachFrom(h, {h.next[n] : n \in new}, seen \cup new)

Roots(h) ==
    {h.next[Sentinel(l)] : l \in AllLists}
        \cup {h.last[l] : l \in {k \in AllLists : h.lstate[k] # "uninit"}}

Garbage(h) == h.alloc \ ReachFrom(h, Roots(h), {})

Forget(h) ==
    LET g == Garbage(h)
    IN  [h EXCEPT !.value = [n \in Nodes |-> IF n \in g THEN 0 ELSE h.value[n]],
                  !.next = [c \in Cells |-> IF c \in g THEN Null ELSE h.next[c]]]

RECURSIVE Distinct(_, _)
Distinct(s, seen) ==
    IF s = <<>> THEN <<>>
    ELSE IF Head(s) \in seen THEN Distinct(Tail(s), seen)
    ELSE <<Head(s)>> \o Distinct(Tail(s), seen \cup {Head(s)})

RECURSIVE Ascending(_)
Ascending(S) ==
    IF S = {} THEN <<>>
    ELSE LET m == CHOOSE x \in S : \A y \in S : x <= y
         IN  <<m>> \o Ascending(S \ {m})

\* Order(h)[i] is the cell that gets the address i: the nodes of the two
\* iterations, the other nodes a pointer leads to, the garbage, the free cells
Order(h) ==
    LET g == Garbage(h)
    IN  Distinct(ChainOf(h, 1) \o ChainOf(h, 2) \o Ascending(h.alloc \ g)
                    \o Ascending(g) \o Ascending(Nodes), {})

\* The renaming of addresses: nullptr and the sentinels keep theirs
Renaming(h) ==
    LET ord == Order(h)
    IN  [c \in Cells \cup {Null} |->
            IF c \in Nodes THEN CHOOSE i \in Nodes : ord[i] = c ELSE c]

Rename(h, ren) ==
    LET old == [i \in Cells |-> CHOOSE c \in Cells : ren[c] = i]
    IN  [next |-> [c \in Cells |-> ren[h.next[old[c]]]],
         value |-> [n \in Nodes |-> h.value[old[n]]],
         alloc |-> {ren[n] : n \in h.alloc},
         size |-> h.size,
         last |-> [l \in AllLists |-> ren[h.last[l]]],
         lstate |-> h.lstate,
         dfree |-> {ren[n] : n \in h.dfree}]

\* The normal form of h, with the renaming that leads to it
Normal(h) ==
    LET f == Forget(h)
        ren == Renaming(f)
    IN  [heap |-> Rename(f, ren), ren |-> ren]

Commit(h) ==
    /\ next' = h.next
    /\ value' = h.value
    /\ alloc' = h.alloc
    /\ size' = h.size
    /\ last' = h.last
    /\ lstate' = h.lstate
    /\ dfreed' = h.dfree


\* ---- member functions as heap transformers --------------------------------

\* A Clear that deletes the nodes and zeroes size_ but leaves `last` as it was
RECURSIVE ClearKeepingLast(_, _)
ClearKeepingLast(h, l) ==
    IF h.next[Sentinel(l)] = Null
    THEN [h EXCEPT !.size[l] = 0]
    ELSE LET deleted_node == h.next[Sentinel(l)]
             h1 == [h EXCEPT !.next[Sentinel(l)] = h.next[deleted_node]]
         IN  ClearKeepingLast(Delete(h1, deleted_node), l)

\* Clear(), lines 121-132: deletes the first node and recurses until the
\* sentinel has no successor, then zeroes size_ and nulls last
RECURSIVE ClearOf(_, _)
ClearOf(h, l) ==
    IF h.next[Sentinel(l)] = Null
    THEN [h EXCEPT !.size[l] = 0, !.last[l] = Null, !.lstate[l] = "valid"]
    ELSE LET deleted_node == h.next[Sentinel(l)]
             h1 == [h EXCEPT !.next[Sentinel(l)] = h.next[deleted_node]]
         IN  ClearOf(Delete(h1, deleted_node), l)

\* SetFirstNode(value), lines 138-142, `new` returning address a
SetFirstNodeOf(h, l, a, v) ==
    LET h1 == NewNode(h, a, v, h.next[Sentinel(l)])
    IN  [h1 EXCEPT !.next[Sentinel(l)] = a,
                   !.last[l] = a,
                   !.lstate[l] = "valid",
                   !.size[l] = @ + 1]

\* A PushFront that also moves `last` to the new first node
PushFrontMovingLast(h, l, a, v) ==
    LET h1 == NewNode(h, a, v, h.next[Sentinel(l)])
    IN  [h1 EXCEPT !.next[Sentinel(l)] = a,
                   !.last[l] = a,
                   !.lstate[l] = "valid",
                   !.size[l] = @ + 1]

\* PushFront(value), lines 144-151
PushFrontOf(h, l, a, v) ==
    IF IsEmptyOf(h, l)
    THEN SetFirstNodeOf(h, l, a, v)
    ELSE LET h1 == NewNode(h, a, v, h.next[Sentinel(l)])
         IN  [h1 EXCEPT !.next[Sentinel(l)] = a, !.size[l] = @ + 1]

\* Lines 158-160 of PushBack with `last` holding the address t:
\*   last->next_node = new Node(value, nullptr); last = last->next_node; ++size_
\* The store lands in cell t when t is memory the program owns after the
\* allocation (a sentinel or an allocated node, the new node included when the
\* allocator hands out the very cell a dangling `last` points to); a store
\* into a cell the allocator holds leaves no trace in the program's objects.
LinkAfterLast(h, l, a, v, t) ==
    LET h1 == NewNode(h, a, v, Null)
        h2 == IF t \in h1.alloc \cup Sentinels
              THEN [h1 EXCEPT !.next[t] = a]
              ELSE h1
    IN  [h2 EXCEPT !.last[l] = a, !.lstate[l] = "valid", !.size[l] = @ + 1]

\* PushBack(value), lines 153-161, on a list whose `last` can be read
\* (every list built by pushing back from size_ = 0 is such a list)
PushBackOf(h, l, a, v) ==
    IF IsEmptyOf(h, l)
    THEN SetFirstNodeOf(h, l, a, v)
    ELSE LinkAfterLast(h, l, a, v, h.last[l])

\* A SetSingleLinkedList that pushes every element to the front: the list
\* comes out in the reverse of the source order
RECURSIVE SetSingleLinkedListPushingFront(_, _, _, _)
SetSingleLinkedListPushingFront(h, l, vals, addrs) ==
    IF vals = <<>> THEN h
    ELSE SetSingleLinkedListPushingFront(
             PushFrontOf(h, l, Head(addrs), Head(vals)),
             l, Tail(vals), Tail(addrs))

\* SetSingleLinkedList(container), lines 171-176: PushBack of every element
\* in iteration order; addrs are the addresses `new` returns, in order
RECURSIVE SetSingleLinkedList(_, _, _, _)
SetSingleLinkedList(h, l, vals, addrs) ==
    IF vals = <<>> THEN h
    ELSE SetSingleLinkedList(PushBackOf(h, l, Head(addrs), Head(vals)),
                             l, Tail(vals), Tail(addrs))

\* The state of a list object after its member initializers ran and before
\* the constructor body: head_.next_node = nullptr (line 16), size_ = 0
\* (lines 119, 236), last not initialized (line 235)
Fresh(h, l) ==
    [h EXCEPT !.next[Sentinel(l)] = Null, !.size[l] = 0,
              !.last[l] = Null, !.lstate[l] = "uninit"]

\* A swap that exchanges head_.next_node and copies the size_ of the other
\* list without handing its own over
SwapLosingSize(h, l, o) ==
    [h EXCEPT !.size = [@ EXCEPT ![l] = h.size[o]],
              !.next = [@ EXCEPT ![Sentinel(l)] = h.next[Sentinel(o)],
                                 ![Sentinel(o)] = h.next[Sentinel(l)]]]

\* swap(other), lines 191-194: size_ and head_.next_node are exchanged
SwapOf(h, l, o) ==
    [h EXCEPT !.size = [@ EXCEPT ![l] = h.size[o], ![o] = h.size[l]],
              !.next = [@ EXCEPT ![Sentinel(l)] = h.next[Sentinel(o)],
                                 ![Sentinel(o)] = h.next[Sentinel(l)]]]

\* The sequences of k distinct addresses that k calls of `new` can return
RECURSIVE AllocSeqs(_, _, _)
AllocSeqs(held, free, k) ==
    IF k = 0 THEN {<<>>}
    ELSE UNION {{<<a>> \o s : s \in AllocSeqs(held, free \ {a}, k - 1)} :
                   a \in NewChoices(held, free)}

NewSeqs(h, k) == AllocSeqs(Held(h), Free(h), k)


\* ---- the record of a call -------------------------------------------------
\* op: the member function; l: the object it was called on; o: the other list
\* (swap, operator=, copy constructor), else 0; pos: the node of the iterator
\* argument, else Null; v: the value argument, else 0; ret: the node of the
\* returned iterator, else Null; fault: the invalid pointer the call read
\* ("none", "null", "uninit", "dangling")
Call(op, l, o, pos, v, ret, fault) ==
    [op |-> op, l |-> l, o |-> o, pos |-> pos, v |-> v, ret |-> ret,
     fault |-> fault]

Running(l) == ~crashed /\ live[l]

\* An invalid store kills the process: nothing else changes
Crash(c) ==
    /\ crashed' = TRUE
    /\ call' = c
    /\ UNCHANGED <<next, value, alloc, size, last, lstate, live, dfreed>>

\* The call returns with the heap h; the iterators in its record are renamed
\* with the heap
Done(h, c) ==
    /\ \E n \in {Normal(h)} :
          /\ Commit(n.heap)
          /\ call' = [c EXCEPT !.pos = n.ren[c.pos], !.ret = n.ren[c.ret]]
    /\ UNCHANGED <<live, crashed>>

\* A constructor or the destructor returns with the heap h
Stored(h) == \E n \in {Normal(h)} : Commit(n.heap)

\* The addresses a never-initialized `last` may hold
Indeterminate == {Null} \cup Nodes \cup {Sentinel(l) : l \in {k \in Lists : live[k]}}

\* The iterators of list l that InsertAfter and EraseAfter accept:
\* before_begin() and every node from begin() up to end()
Positions(l) == {Sentinel(l)} \cup Range(Chain(l))

\* The program starts with the objects of `objects` default-constructed
\* (lines 118-119): no node, size_ = 0, last never written
InitWith(objects) ==
    /\ next = [c \in Cells |-> Null]
    /\ value = [n \in Nodes |-> 0]
    /\ alloc = {}
    /\ size = [l \in AllLists |-> 0]
    /\ last = [l \in AllLists |-> Null]
    /\ lstate = [l \in AllLists |-> "uninit"]
    /\ live = [l \in AllLists |-> l \in objects]
    /\ dfreed = {}
    /\ crashed = FALSE
    /\ call = Call("SingleLinkedList", 1, 0, Null, 0, Null, "none")

Init == InitWith({1})

\* SingleLinkedList(), lines 118-119, for an object not constructed yet
Construct(l) ==
    /\ ~crashed /\ ~live[l]
    /\ Stored(Fresh(Heap, l))
    /\ live' = [live EXCEPT ![l] = TRUE]
    /\ call' = Call("SingleLinkedList", l, 0, Null, 0, Null, "none")
    /\ UNCHANGED crashed

\* SingleLinkedList(std::initializer_list<Type>), lines 177-179
ConstructFrom(l, vals) ==
    /\ ~crashed /\ ~live[l]
    /\ \E addrs \in NewSeqs(Heap, Len(vals)) :
          Stored(SetSingleLinkedList(Fresh(Heap, l), l, vals, addrs))
    /\ live' = [live EXCEPT ![l] = TRUE]
    /\ call' = Call("InitializerList", l, 0, Null, 0, Null, "none")
    /\ UNCHANGED crashed

\* SingleLinkedList(const SingleLinkedList& other), lines 181-183
CopyConstruct(l, o) ==
    /\ ~crashed /\ ~live[l] /\ live[o]
    /\ \E addrs \in NewSeqs(Heap, Len(Chain(o))) :
          Stored(SetSingleLinkedList(Fresh(Heap, l), l, Contents(o), addrs))
    /\ live' = [live EXCEPT ![l] = TRUE]
    /\ call' = Call("Copy", l, o, Null, 0, Null, "none")
    /\ UNCHANGED crashed

\* ~SingleLinkedList(), lines 134-136; the storage of a destroyed object
\* holds nothing the program may read
Destroy(l) ==
    /\ Running(l)
    /\ Stored(Fresh(ClearOf(Heap, l), l))
    /\ live' = [live EXCEPT ![l] = FALSE]
    /\ call' = Call("Destroy", l, 0, Null, 0, Null, "none")
    /\ UNCHANGED crashed

\* Clear(), lines 121-132
Clear(l) ==
    /\ Running(l)
    /\ Done(ClearOf(Heap, l), Call("Clear", l, 0, Null, 0, Null, "none"))

\* PushFront(value), lines 144-151
PushFront(l, v) ==
    /\ Running(l) /\ size[l] < MaxSize
    /\ \E a \in New(Heap) :
          Done(PushFrontOf(Heap, l, a, v),
               Call("PushFront", l, 0, Null, v, Null, "none"))

\* PushBack(value), lines 153-161.  When the list is not empty `last` is
\* dereferenced: a null pointer kills the process; a never-initialized one
\* holds any address; a store through a dangling or never-initialized pointer
\* either goes through or kills the process.
PushBack(l, v) ==
    /\ Running(l) /\ size[l] < MaxSize
    /\ \E a \in New(Heap) :
          IF IsEmpty(l) \/ (lstate[l] = "valid" /\ last[l] # Null)
          THEN Done(PushBackOf(Heap, l, a, v),
                    Call("PushBack", l, 0, Null, v, Null, "none"))
          ELSE IF lstate[l] = "valid"
          THEN Crash(Call("PushBack", l, 0, Null, v, Null, "null"))
          ELSE \E t \in (IF lstate[l] = "uninit" THEN Indeterminate ELSE {last[l]}) :
                  \/ /\ t # Null
                     /\ Done(LinkAfterLast(Heap, l, a, v, t),
                             Call("PushBack", l, 0, Null, v, Null, lstate[l]))
                  \/ Crash(Call("PushBack", l, 0, Null, v, Null, lstate[l]))


\* InsertAfter as it would be with the new node built by
\* new Node(value, nullptr): the elements after pos are cut off
InsertAfterCutsRest(l, pos, v) ==
    /\ Running(l) /\ size[l] < MaxSize
    /\ pos \in Positions(l)
    /\ \E new_node \in New(Heap) :
          LET h1 == NewNode(Heap, new_node, v, Null)
              h2 == [h1 EXCEPT !.next[pos] = new_node, !.size[l] = @ + 1]
          IN  Done(h2, Call("InsertAfter", l, 0, pos, v, new_node, "none"))

\* InsertAfter(pos, value), lines 208-213
InsertAfter(l, pos, v) ==
    /\ Running(l) /\ size[l] < MaxSize
    /\ pos \in Positions(l)
    /\ \E new_node \in New(Heap) :
          LET h1 == NewNode(Heap, new_node, v, next[pos])
              h2 == [h1 EXCEPT !.next[pos] = new_node, !.size[l] = @ + 1]
          IN  Done(h2, Call("InsertAfter", l, 0, pos, v, new_node, "none"))

\* A PopFront that also decrements size_
PopFrontCountingDown(h, l) ==
    LET tmp == h.next[h.next[Sentinel(l)]]
        h1 == Delete(h, h.next[Sentinel(l)])
    IN  [h1 EXCEPT !.next[Sentinel(l)] = tmp, !.size[l] = @ - 1]

\* The body of PopFront, lines 217-219: size_ and last are not written
PopFrontOf(h, l) ==
    LET tmp == h.next[h.next[Sentinel(l)]]
        h1 == Delete(h, h.next[Sentinel(l)])
    IN  [h1 EXCEPT !.next[Sentinel(l)] = tmp]

\* The body of EraseAfter, lines 224-226: size_ and last are not written
EraseAfterOf(h, l, pos) ==
    LET tmp == h.next[h.next[pos]]
        h1 == Delete(h, h.next[pos])
    IN  [h1 EXCEPT !.next[pos] = tmp]

\* PopFront(), lines 215-220
PopFront(l) ==
    /\ Running(l)
    /\ next[Sentinel(l)] # Null
    /\ Done(PopFrontOf(Heap, l), Call("PopFront", l, 0, Null, 0, Null, "none"))

\* EraseAfter(pos), lines 222-229
EraseAfter(l, pos) ==
    /\ Running(l)
    /\ pos \in Positions(l)
    /\ next[pos] # Null
    /\ LET h2 == EraseAfterOf(Heap, l, pos)
       IN  Done(h2, Call("EraseAfter", l, 0, pos, 0, h2.next[pos], "none"))

\* swap(other), lines 191-194, and the free function swap, lines 239-242
Swap(l, o) ==
    /\ Running(l) /\ live[o]
    /\ Done(SwapOf(Heap, l, o), Call("swap", l, o, Null, 0, Null, "none"))

\* operator=(rhs), lines 185-189: tmp is copy-constructed from rhs, swapped
\* with *this and destroyed on return
Assign(l, rhs) ==
    /\ Running(l) /\ live[rhs]
    /\ \E addrs \in NewSeqs(Heap, Len(Chain(rhs))) :
          LET h1 == SetSingleLinkedList(Fresh(Heap, Tmp), Tmp, Contents(rhs), addrs)
              h2 == SwapOf(h1, l, Tmp)
              h3 == Fresh(ClearOf(h2, Tmp), Tmp)
          IN  Done(h3, Call("operator=", l, rhs, Null, 0, Null, "none"))

InitLists == UNION {[1..n -> Values] : n \in 0..MaxInit}

\* ---- one list object ------------------------------------------------------
\* The program holds the list object 1: it constructs it, calls its member
\* functions in any order, destroys it and constructs it again.
Next ==
    \/ Construct(1)
    \/ \E vals \in InitLists : ConstructFrom(1, vals)
    \/ Destroy(1)
    \/ Clear(1)
    \/ \E v \in Values : PushFront(1, v)
    \/ \E v \in Values : PushBack(1, v)
    \/ \E pos \in Cells : \E v \in Values : InsertAfter(1, pos, v)
    \/ PopFront(1)
    \/ \E pos \in Cells : EraseAfter(1, pos)
    \/ Assign(1, 1)

Spec == Init /\ [][Next]_vars

\* ---- two list objects -----------------------------------------------------
\* The program holds the list objects 1 and 2: it builds them from
\* initializer lists or as copies of one another, appends to them, swaps
\* them, assigns one to the other and destroys them.
InitPair == InitWith(Lists)

NextPair ==
    \/ \E l \in Lists : \E vals \in InitLists : ConstructFrom(l, vals)
    \/ \E l \in Lists : \E o \in Lists : CopyConstruct(l, o)
    \/ \E l \in Lists : Destroy(l)
    \/ \E l \in Lists : \E v \in Values : PushBack(l, v)
    \/ \E l \in Lists : \E o \in Lists : Swap(l, o)
    \/ \E l \in Lists : \E rhs \in Lists : Assign(l, rhs)

SpecPair == InitPair /\ [][NextPair]_vars

\* ---- well-formedness of the model's state ---------------------------------
TypeOK ==
    /\ next \in [Cells -> Cells \cup {Null}]
    /\ value \in [Nodes -> Values \cup {0}]
    /\ alloc \subseteq Nodes
    /\ size \in [AllLists -> 0..MaxSize]
    /\ last \in [AllLists -> Cells \cup {Null}]
    /\ lstate \in [AllLists -> {"uninit", "valid", "dangling"}]
    /\ live \in [AllLists -> BOOLEAN]
    /\ ~live[Tmp]
    /\ dfreed \subseteq Nodes
    /\ crashed \in BOOLEAN

\* Every node the iteration of a live list visits is allocated, and no node
\* is visited by two iterations or twice by one
ChainsOK ==
    /\ \A l \in Lists : Range(Chain(l)) \subseteq alloc
    /\ \A l \in Lists : Cardinality(Range(Chain(l))) = Len(Chain(l))
    /\ Range(Chain(1)) \cap Range(Chain(2)) = {}


\* ---- what the claims speak of ---------------------------------------------
\* The tail pointer of l can be read and points to the last node of l's chain
TailOK(l) ==
    /\ lstate[l] = "valid"
    /\ last[l] = Chain(l)[Len(Chain(l))]

\* The index in l's chain of the iterator argument of the last call
\* (0: before_begin())
PosIndex(l) ==
    IF call.pos = Sentinel(l) THEN 0
    ELSE CHOOSE i \in 1..Len(Chain(l)) : Chain(l)[i] = call.pos

\* s without its i-th element; s with v inserted after its i-th element
RemoveAt(s, i) == SubSeq(s, 1, i - 1) \o SubSeq(s, i + 1, Len(s))
InsertAt(s, i, v) == SubSeq(s, 1, i) \o <<v>> \o SubSeq(s, i + 1, Len(s))

\* The step is a call of member function op on object l
Called(op, l) == call'.op = op /\ call'.l = l

\* ---- C1 -------------------------------------------------------------------
\* C1: in every reachable state GetSize() of a live list equals the number of
\* nodes reachable from its sentinel.
SizeCountsNodes ==
    \A l \in Lists : live[l] => GetSize(l) = Len(Chain(l))

\* ---- C2 -------------------------------------------------------------------
\* C2: in every reachable state, a live list that holds at least one node has
\* `last` pointing to the node of this list whose next_node is null.
LastIsTail ==
    \A l \in Lists : (live[l] /\ Chain(l) # <<>>) => TailOK(l)

\* ---- C3 -------------------------------------------------------------------
\* C3: from every reachable state with contents S, PushBack(v) returns with
\* contents S followed by v and the new node as the tail.
PushBackAppends ==
    [][\A l \in Lists :
          Called("PushBack", l) =>
              /\ ~crashed'
              /\ Contents(l)' = Append(Contents(l), call'.v)
              /\ TailOK(l)']_vars

\* ---- C4 -------------------------------------------------------------------
\* C4: once every list is destroyed, every node that was allocated has been
\* deleted exactly once: none is still allocated, none was deleted twice.
NoLeakNoDoubleFree ==
    (~crashed /\ \A l \in Lists : ~live[l]) => (alloc = {} /\ dfreed = {})


\* ---- C5 -------------------------------------------------------------------
\* C5: EraseAfter(pos), pos the sentinel or a node of the list with a
\* successor, removes exactly the element after pos, decrements GetSize() by
\* one and returns the iterator to the element after the removed one, end()
\* if there is none.
EraseAfterRemovesNext ==
    [][\A l \in Lists :
          Called("EraseAfter", l) =>
              LET i == PosIndex(l)'
              IN  /\ Contents(l)' = RemoveAt(Contents(l), i + 1)
                  /\ GetSize(l)' = GetSize(l) - 1
                  /\ call'.ret = IF i + 1 <= Len(Chain(l)') THEN Chain(l)'[i + 1]
                                 ELSE Null]_vars

\* ---- C6 -------------------------------------------------------------------
\* C6: PopFront() on a list that holds a node removes exactly the first
\* element, leaves the sentinel linked to the former second node, and
\* decrements GetSize() by one; a list of one element is empty afterwards
\* (IsEmpty(), GetSize() = 0).
PopFrontRemovesFirst ==
    [][\A l \in Lists :
          Called("PopFront", l) =>
              /\ Contents(l)' = Tail(Contents(l))
              /\ Len(Chain(l)') = Len(Chain(l)) - 1
              /\ GetSize(l)' = GetSize(l) - 1
              /\ (Len(Chain(l)) = 1 => (IsEmpty(l)' /\ GetSize(l)' = 0))]_vars

\* ---- C7 -------------------------------------------------------------------
\* C7: InsertAfter(pos, v), pos the sentinel or a node of the list, leaves
\* the contents with v inserted right after pos and everything else as it
\* was, increments GetSize() by one, and returns the iterator to the new
\* node: it holds v and its successor is the former successor of pos.
InsertAfterInserts ==
    [][\A l \in Lists :
          Called("InsertAfter", l) =>
              LET i == PosIndex(l)'
                  new_node == call'.ret
              IN  /\ Contents(l)' = InsertAt(Contents(l), i, call'.v)
                  /\ GetSize(l)' = GetSize(l) + 1
                  /\ new_node = Chain(l)'[i + 1]
                  /\ value'[new_node] = call'.v
                  /\ next'[call'.pos] = new_node
                  /\ next'[new_node] = IF i + 2 <= Len(Chain(l)') THEN Chain(l)'[i + 2]
                                       ELSE Null
                  /\ Len(Chain(l)') = Len(Chain(l)) + 1]_vars

\* The case of C7: a value was inserted after a node of the list that had a
\* successor, between two elements
InsertedInTheMiddle ==
    /\ call.op = "InsertAfter"
    /\ call.pos \in Nodes
    /\ next[call.pos] = call.ret
    /\ next[call.ret] # Null
    /\ value[call.pos] # call.v

\* ---- C8 -------------------------------------------------------------------
\* C8: when EraseAfter(pos) removes the last element, the tail pointer is
\* set to pos, so that the PushBack(v) called next puts v right after pos,
\* as the last element.
EraseLastThenPushBack ==
    [][\A l \in Lists :
          /\ (Called("EraseAfter", l) /\ call'.ret = Null /\ call'.pos \in Nodes)
                => (lstate'[l] = "valid" /\ last'[l] = call'.pos)
          /\ (call.op = "EraseAfter" /\ call.l = l /\ call.ret = Null
                 /\ call.pos \in Nodes /\ Called("PushBack", l))
                => /\ ~crashed'
                   /\ Contents(l)' = Append(Contents(l), call'.v)
                   /\ next'[call.pos] = last'[l]]_vars


\* ---- C9 -------------------------------------------------------------------
\* C9: A.swap(B) leaves A with the contents and size of B and B with those
\* of A, allocates and frees nothing, and hands each list the tail pointer
\* of the chain it now owns: tails that pointed to the last nodes before the
\* call do so after it.
SwapExchanges ==
    [][\A l \in Lists : \A o \in Lists :
          (Called("swap", l) /\ call'.o = o) =>
              /\ Contents(l)' = Contents(o)
              /\ Contents(o)' = Contents(l)
              /\ GetSize(l)' = GetSize(o)
              /\ GetSize(o)' = GetSize(l)
              /\ Cardinality(alloc') = Cardinality(alloc)
              /\ (\A x \in {l, o} : Chain(x) # <<>> => TailOK(x))
                    => (\A x \in {l, o} : Chain(x)' # <<>> => TailOK(x)')]_vars

\* ---- C10 ------------------------------------------------------------------
\* C10: after A = B, A holds the elements B held before, in order, in nodes
\* of its own, GetSize() of A is their number, and B is unchanged; after
\* A = A the contents and the size of A are what they were.
AssignCopies ==
    [][\A l \in Lists : \A o \in Lists :
          (Called("operator=", l) /\ call'.o = o) =>
              /\ Contents(l)' = Contents(o)
              /\ GetSize(l)' = Len(Contents(o))
              /\ Contents(o)' = Contents(o)
              /\ o # l => /\ GetSize(o)' = GetSize(o)
                          /\ Range(Chain(l)') \cap Range(Chain(o)') = {}
              /\ o = l => GetSize(l)' = GetSize(l)]_vars

\* ---- C11 ------------------------------------------------------------------
\* The member functions that change a list in place
Mutators == {"PushFront", "PushBack", "InsertAfter", "EraseAfter", "PopFront", "Clear"}

\* C11: once B is copy-constructed from A, a mutating call on A leaves the
\* contents and GetSize() of B as they were, and a mutating call on B leaves
\* those of A.
CopyIsIndependent ==
    [][\A l \in Lists : \A o \in Lists \ {l} :
          (call.op = "Copy" /\ {call.l, call.o} = {l, o}
              /\ Called(call'.op, l) /\ call'.op \in Mutators)
             => /\ Contents(o)' = Contents(o)
                /\ GetSize(o)' = GetSize(o)]_vars

\* ---- C12 ------------------------------------------------------------------
\* C12: a list constructed from the initializer sequence S iterates exactly S
\* in source order and GetSize() is the length of S, the empty S included.
InitializerListBuildsS ==
    [][\A vals \in InitLists :
          ConstructFrom(1, vals)
             => /\ Contents(1)' = vals
                /\ GetSize(1)' = Len(vals)
                /\ ~crashed']_vars

\* a list was just constructed from a sequence whose order shows
BuiltFromOrderedS ==
    /\ call.op = "InitializerList" /\ live[1]
    /\ Len(Contents(1)) >= 2
    /\ Contents(1)[1] # Contents(1)[2]

\* ---- C13 ------------------------------------------------------------------
\* Two default-constructed lists that the program only pushes to
NextPush ==
    \/ \E l \in Lists : \E v \in Values : PushFront(l, v)
    \/ \E l \in Lists : \E v \in Values : PushBack(l, v)

SpecPush == InitPair /\ [][NextPush]_vars

\* C13: from a default-constructed list, PushFront and PushBack calls in any
\* interleaving give the deque order and GetSize() counts the calls: the list
\* starts empty with size 0, every PushFront(v) puts v before what the list
\* held, every PushBack(v) puts v after it, and each adds one to GetSize().
PushesGiveDequeOrder ==
    /\ \A l \in Lists : Contents(l) = <<>> /\ GetSize(l) = 0
    /\ [][\A l \in Lists :
             /\ Called("PushFront", l)
                   => /\ Contents(l)' = <<call'.v>> \o Contents(l)
                      /\ GetSize(l)' = GetSize(l) + 1
                      /\ call'.fault = "none"
             /\ Called("PushBack", l)
                   => /\ Contents(l)' = Append(Contents(l), call'.v)
                      /\ GetSize(l)' = GetSize(l) + 1
                      /\ call'.fault = "none"]_vars

\* a value was pushed to the back of a list that had been pushed to the front
\* more than once
PushedBackAfterFronts ==
    /\ call.op = "PushBack"
    /\ Len(Contents(call.l)) = MaxNodes
    /\ Contents(call.l)[1] # Contents(call.l)[2]
    /\ last[call.l] # next[Sentinel(call.l)]

\* ---- C14 ------------------------------------------------------------------
\* C14: Clear() on any reachable state of a list, an empty or a just cleared
\* one included, returns and leaves GetSize() = 0, IsEmpty() true,
\* begin() = end(), every node of the list's chain deallocated (each exactly
\* once) and `last` null.
ClearEmptiesTheList ==
    [][\A l \in Lists :
          Called("Clear", l)
             => /\ GetSize(l)' = 0
                /\ IsEmpty(l)'
                /\ next'[Sentinel(l)] = Null
                /\ Contents(l)' = <<>>
                /\ last'[l] = Null /\ lstate'[l] = "valid"
                /\ Cardinality(alloc') = Cardinality(alloc) - Len(Chain(l))
                /\ Cardinality(dfreed') = Cardinality(dfreed)
                /\ ~crashed']_vars

\* Clear() has returned on a list whose earlier calls had left a node outside
\* its chain
ClearedAfterLeak ==
    /\ call.op = "Clear" /\ live[call.l] /\ ~crashed
    /\ IsEmpty(call.l) /\ Contents(call.l) = <<>>
    /\ alloc # {}

\* ---- C15 ------------------------------------------------------------------
\* C15: InsertAfter(before_begin(), v) is equivalent to PushFront(v): from the
\* same state both leave the same iteration contents, the same GetSize() and
\* the same validity of the tail reference, the empty list included.
InsertAtFrontIsPushFront ==
    [][\A l \in Lists :
          (Called("InsertAfter", l) /\ call'.pos = Sentinel(l))
             => \E a \in New(Heap) :
                   LET pushed == PushFrontOf(Heap, l, a, call'.v)
                   IN  /\ ContentsOf(pushed, l) = Contents(l)'
                       /\ pushed.size[l] = GetSize(l)'
                       /\ (pushed.lstate[l] = "valid") <=> (lstate'[l] = "valid")]_vars

\* ---- C16 ------------------------------------------------------------------
\* C16: on a non-empty list EraseAfter(before_begin()) and PopFront() are
\* equivalent: from the same state both leave the same iteration contents,
\* the same GetSize() and the same tail reference.
EraseAtFrontIsPopFront ==
    [][\A l \in Lists :
          /\ Called("PopFront", l)
                => LET erased == Normal(EraseAfterOf(Heap, l, Sentinel(l))).heap
                   IN  /\ Contents(l)' = ContentsOf(erased, l)
                       /\ GetSize(l)' = erased.size[l]
                       /\ last'[l] = erased.last[l]
                       /\ lstate'[l] = erased.lstate[l]
          /\ (Called("EraseAfter", l) /\ call'.pos = Sentinel(l))
                => LET popped == Normal(PopFrontOf(Heap, l)).heap
                   IN  /\ Contents(l)' = ContentsOf(popped, l)
                       /\ GetSize(l)' = popped.size[l]
                       /\ last'[l] = popped.last[l]
                       /\ lstate'[l] = popped.lstate[l]]_vars

\* EraseAfter(before_begin()) has removed the first node of a list that held
\* more than one, the tail reference being one that pointed at a node
ErasedAtFront ==
    /\ call.op = "EraseAfter" /\ call.pos = Sentinel(call.l)
    /\ Contents(call.l) # <<>>
    /\ lstate[call.l] # "uninit"

\* ---- C17 ------------------------------------------------------------------
\* Two list objects that the program builds from initializer lists, swaps
\* and destroys
NextSwap ==
    \/ \E l \in Lists : \E vals \in InitLists : ConstructFrom(l, vals)
    \/ \E l \in Lists : Destroy(l)
    \/ \E l \in Lists : \E o \in Lists : Swap(l, o)

SpecSwap == InitPair /\ [][NextSwap]_vars

\* C17: swap(A, B) performed twice in a row restores the iteration contents
\* and GetSize() of both A and B: the second swap, applied to the state the
\* first one left, gives back what the lists held before the first.
SwapTwiceRestores ==
    [][\A l \in Lists : \A o \in Lists :
          (Called("swap", l) /\ call'.o = o)
             => LET again == SwapOf(Heap', l, o)
                IN  /\ ContentsOf(again, l) = Contents(l)
                    /\ ContentsOf(again, o) = Contents(o)
                    /\ again.size[l] = GetSize(l)
                    /\ again.size[o] = GetSize(o)]_vars

\* two lists of different contents and sizes were swapped
SwappedDifferentLists ==
    /\ call.op = "swap" /\ call.l # call.o
    /\ Contents(1) # <<>> /\ Contents(2) # <<>>
    /\ Len(Contents(1)) # Len(Contents(2))

\* ---- C18 ------------------------------------------------------------------
\* A comparison that stops with "equal" as soon as the first range ends
RECURSIVE EqualPrefix(_, _)
EqualPrefix(p, q) ==
    IF p = Null THEN TRUE
    ELSE IF q = Null THEN FALSE
    ELSE IF value[p] # value[q] THEN FALSE
    ELSE EqualPrefix(next[p], next[q])

\* std::equal(first1, last1, first2, last2) on forward iterators, as
\* operator== calls it (line 246) with last1 = last2 = end(): both iterators
\* advance together while neither is at its end and the elements agree; the
\* ranges are equal when both ends are reached together
RECURSIVE EqualFrom(_, _)
EqualFrom(p, q) ==
    IF p = Null \/ q = Null THEN p = Null /\ q = Null
    ELSE IF value[p] # value[q] THEN FALSE
    ELSE EqualFrom(next[p], next[q])

\* operator==(lhs, rhs), lines 244-247
Equal(lhs, rhs) == EqualFrom(next[Sentinel(lhs)], next[Sentinel(rhs)])

\* operator!=(lhs, rhs), lines 249-252
NotEqual(lhs, rhs) == ~Equal(lhs, rhs)

\* Two default-constructed lists that the program pushes to, pops from and
\* clears
NextCompare ==
    \/ \E l \in Lists : \E v \in Values : PushFront(l, v)
    \/ \E l \in Lists : PopFront(l)
    \/ \E l \in Lists : Clear(l)

SpecCompare == InitPair /\ [][NextCompare]_vars

\* C18: A == B is true exactly when the iteration sequences of A and B have
\* the same length and are pairwise equal in order, and A != B is its
\* negation, however the two lists were built.
EqualIffSameSequence ==
    ~crashed =>
        \A lhs \in Lists : \A rhs \in Lists :
            /\ Equal(lhs, rhs) <=> Contents(lhs) = Contents(rhs)
            /\ NotEqual(lhs, rhs) <=> Contents(lhs) # Contents(rhs)

\* two lists hold the same non-empty sequence after different histories of
\* insertions and removals (their size_ fields differ)
SameSequenceBuiltDifferently ==
    /\ ~crashed
    /\ Contents(1) = Contents(2) /\ Contents(1) # <<>>
    /\ size[1] # size[2]
    /\ Equal(1, 2)

\* ---- C19 ------------------------------------------------------------------
\* C19: no call made with its preconditions met reads or writes through a
\* pointer to a deallocated node or through a never-initialized `last`.
NoInvalidPointerUse ==
    call.fault \notin {"uninit", "dangling"}

\* ---- C20 ------------------------------------------------------------------
\* C20: in every reachable state IsEmpty() is true exactly when
\* begin() = end(), that is when the sentinel has no successor.
IsEmptyIffNoFirstNode ==
    ~crashed =>
        \A l \in Lists :
            live[l] => (IsEmpty(l) <=> next[Sentinel(l)] = Null)

====
